---- MODULE Spec2Model ----
(***************************************************************************)
(* A model of src/list.h: List<T>, a sentinel-based circular doubly-linked *)
(* list that owns heap-allocated nodes.                                    *)
(*                                                                         *)
(* The heap is a pool of MaxNodes node cells.  A node is a ListNode        *)
(* (prev_, next_) and, for a TNode, one value_.  A list object is a pair   *)
(* (end_, size_).  Every handler of the class is one action; the handler's *)
(* body is a function from heap-and-lists records to such records, built   *)
(* from the same private primitives (LinkAfter, UnLink) as the source.     *)
(***************************************************************************)
EXTENDS Integers, Sequences, FiniteSets, TLC

\* ----- bounds of the model ------------------------------------------------
MaxNodes == 4
MaxVal == 2
\* how far below zero the model follows a size_ that wrapped around
MaxUnder == 2

\* nullptr
Null == 0
\* a cell that holds no element (a plain ListNode, or a free cell)
NoVal == 0
Nodes == 1..MaxNodes
Values == 1..MaxVal
\* the list objects of the program
Lists == {"a", "b"}

VARIABLES
    prev_,       \* ListNode::prev_ of every node cell
    next_,       \* ListNode::next_ of every node cell
    value_,      \* TNode::value_ (NoVal for a plain ListNode or a free cell)
    allocated,   \* the node cells currently allocated by new
    end_,        \* List::end_ of every list object
    size_,       \* List::size_ of every list object.  A size_t counts modulo
                 \* 2^64: the model holds the representative in
                 \* -MaxUnder..MaxNodes, so -1 stands for 2^64 - 1
    alive,       \* which list objects are within their lifetime
    iter,        \* Iterator::iter_ of one iterator object held by the caller
    pc,          \* "running", "terminated" (std::terminate) or "crashed"
    last,        \* the last handler call: its operator, what it did, the node
                 \* of its Iterator argument (at), whether its List argument
                 \* was the object itself (self)
    ref,         \* reference sequence of every list (history variable)
    copiedFrom   \* the list a list was copy-constructed from (history variable)

vars == <<prev_, next_, value_, allocated, end_, size_, alive, iter, pc, last,
          ref, copiedFrom>>

\* ----- the state a handler works on -----------------------------------------
\* The heap and the list objects, plus what the running call has done so far:
\* freed are the cells it deallocated, exc is the exception in flight ("none"
\* when there is none), nomem says that an allocation failure was swallowed,
\* fault collects undefined behaviour.
Cur ==
    [prev |-> prev_, next |-> next_, value |-> value_, alloc |-> allocated,
     end |-> end_, size |-> size_,
     freed |-> {}, exc |-> "none", nomem |-> FALSE, fault |-> {}]

GetNext(s, n) == s.next[n]

GetPrev(s, n) == s.prev[n]

SetNext(s, n, x) == [s EXCEPT !.next[n] = x]

SetPrev(s, n, x) == [s EXCEPT !.prev[n] = x]

GetValue(s, n) == s.value[n]

\* operator new: the pool has room
CanAlloc(s) == s.alloc # Nodes

\* the cell operator new returns (the lowest free one)
FreshNode(s) == CHOOSE n \in Nodes \ s.alloc : \A m \in Nodes \ s.alloc : n <= m

\* new ListNode<T>(): both links start as nullptr
NewListNode(s) ==
    LET n == FreshNode(s)
    IN [s EXCEPT !.alloc = @ \cup {n},
                 !.prev[n] = Null, !.next[n] = Null, !.value[n] = NoVal]

\* new TNode<T>(element)
NewTNode(s, element) ==
    LET n == FreshNode(s)
    IN [s EXCEPT !.alloc = @ \cup {n},
                 !.prev[n] = Null, !.next[n] = Null, !.value[n] = element]

\* delete node (delete nullptr does nothing)
Delete(s, n) ==
    IF n = Null THEN s
    ELSE IF n \notin s.alloc THEN [s EXCEPT !.fault = @ \cup {"double_free"}]
    ELSE [s EXCEPT !.alloc = @ \ {n}, !.freed = @ \cup {n},
                   !.prev[n] = Null, !.next[n] = Null, !.value[n] = NoVal]

Throw(s, e) == [s EXCEPT !.exc = e]

\* ----- private primitives -------------------------------------------------
\* LinkAfter without the back link of the old successor
LinkAfter_NoBackLink(s, after, emplace) ==
    LET s1 == SetPrev(s, emplace, after)
        s2 == SetNext(s1, emplace, GetNext(s1, after))
    IN SetNext(s2, after, emplace)

LinkAfter(s, after, emplace) ==
    LET s1 == SetPrev(s, emplace, after)
        s2 == SetNext(s1, emplace, GetNext(s1, after))
        s3 == SetPrev(s2, GetNext(s2, after), emplace)
    IN SetNext(s3, after, emplace)

\* UnLink that leaves the node allocated
UnLink_NoDelete(s, node) ==
    IF node # Null
    THEN LET s1 == SetNext(s, GetPrev(s, node), GetNext(s, node))
         IN SetPrev(s1, GetNext(s1, node), GetPrev(s1, node))
    ELSE s

UnLink(s, node) ==
    IF node # Null
    THEN LET s1 == SetNext(s, GetPrev(s, node), GetNext(s, node))
             s2 == SetPrev(s1, GetNext(s1, node), GetPrev(s1, node))
         IN Delete(s2, node)
    ELSE s

\* ----- observers ------------------------------------------------------------
IsEmpty(s, l) == s.size[l] = 0

Size(s, l) == s.size[l]

Begin(s, l) == GetNext(s, s.end[l])

End(s, l) == s.end[l]

\* Back() reads the value of the node before the sentinel
Back(s, l) == GetValue(s, GetPrev(s, s.end[l]))

\* ----- public operations ----------------------------------------------------
\* fail is "none", "bad_alloc" (operator new throws) or "ctor" (T's
\* constructor throws).  In both cases new_node is still nullptr in the
\* handler: delete nullptr, rethrow.
PushBack(s, l, element, fail) ==
    IF fail = "bad_alloc" \/ ~CanAlloc(s) THEN Throw(s, "bad_alloc")
    ELSE IF fail = "ctor" THEN Throw(s, "ctor")
    ELSE LET new_node == FreshNode(s)
             s1 == NewTNode(s, element)
             s2 == LinkAfter(s1, GetPrev(s1, s1.end[l]), new_node)
         IN [s2 EXCEPT !.size[l] = @ + 1]

\* TNode(T&&) is noexcept: a throwing move constructor of T ends in
\* std::terminate instead of an exception.
PushBackMove(s, l, element, fail) ==
    IF fail = "bad_alloc" \/ ~CanAlloc(s) THEN Throw(s, "bad_alloc")
    ELSE IF fail = "ctor" THEN Throw(s, "terminate")
    ELSE LET new_node == FreshNode(s)
             s1 == NewTNode(s, element)
             s2 == LinkAfter(s1, GetPrev(s1, s1.end[l]), new_node)
         IN [s2 EXCEPT !.size[l] = @ + 1]

\* PushFront that links the new node at the tail
PushFront_AtTail(s, l, element, fail) == PushBack(s, l, element, fail)

PushFront(s, l, element, fail) ==
    IF fail = "bad_alloc" \/ ~CanAlloc(s) THEN Throw(s, "bad_alloc")
    ELSE IF fail = "ctor" THEN Throw(s, "ctor")
    ELSE LET new_node == FreshNode(s)
             s1 == NewTNode(s, element)
             s2 == LinkAfter(s1, s1.end[l], new_node)
         IN [s2 EXCEPT !.size[l] = @ + 1]

PushFrontMove(s, l, element, fail) ==
    IF fail = "bad_alloc" \/ ~CanAlloc(s) THEN Throw(s, "bad_alloc")
    ELSE IF fail = "ctor" THEN Throw(s, "terminate")
    ELSE LET new_node == FreshNode(s)
             s1 == NewTNode(s, element)
             s2 == LinkAfter(s1, s1.end[l], new_node)
         IN [s2 EXCEPT !.size[l] = @ + 1]

\* PopBack that unlinks the first element
PopBack_Front(s, l) ==
    LET s1 == UnLink(s, GetNext(s, s.end[l]))
    IN [s1 EXCEPT !.size[l] = @ - 1]

PopBack(s, l) ==
    LET s1 == UnLink(s, GetPrev(s, s.end[l]))
    IN [s1 EXCEPT !.size[l] = @ - 1]

PopFront(s, l) ==
    LET s1 == UnLink(s, GetNext(s, s.end[l]))
    IN [s1 EXCEPT !.size[l] = @ - 1]

\* Erase without the comparison with end_
Erase_EndToo(s, l, place) ==
    LET s1 == UnLink(s, place)
    IN [s1 EXCEPT !.size[l] = @ - 1]

Erase(s, l, place) ==
    LET to_erase == place
    IN IF to_erase # s.end[l]
       THEN LET s1 == UnLink(s, to_erase)
            IN [s1 EXCEPT !.size[l] = @ - 1]
       ELSE s

\* while (!IsEmpty()) PopBack();
RECURSIVE ClearBack(_, _)
ClearBack(s, l) == IF IsEmpty(s, l) THEN s ELSE ClearBack(PopBack(s, l), l)

\* while (!IsEmpty()) PopFront();
RECURSIVE ClearFront(_, _)
ClearFront(s, l) == IF IsEmpty(s, l) THEN s ELSE ClearFront(PopFront(s, l), l)

\* The copy loops: PushBack a copy of every element from node it up to stop.
\* The failIn-th PushBack of the loop fails (none when failIn < 1).
RECURSIVE CopyLoop(_, _, _, _, _, _)
CopyLoop(s, l, it, stop, failIn, kind) ==
    IF it = stop THEN s
    ELSE LET s1 == PushBack(s, l, GetValue(s, it),
                            IF failIn = 1 THEN kind ELSE "none")
         IN IF s1.exc # "none" THEN s1
            ELSE CopyLoop(s1, l, GetNext(s1, it), stop, failIn - 1, kind)

\* List()
ListDefault(s, l, fail) ==
    IF fail \/ ~CanAlloc(s) THEN Throw(s, "bad_alloc")
    ELSE LET e == FreshNode(s)
             s1 == [NewListNode(s) EXCEPT !.end[l] = e, !.size[l] = 0]
         IN SetPrev(SetNext(s1, e, e), e, e)

\* a copy constructor that adopts other's sentinel instead of copying
ListCopy_Shallow(s, l, other, failAt, kind) ==
    [s EXCEPT !.end[l] = s.end[other], !.size[l] = s.size[other]]

\* List(const List& other): allocation number failAt of the call fails
\* (1 is the sentinel, k + 1 the k-th element; 0 is no failure).
ListCopy(s, l, other, failAt, kind) ==
    IF failAt = 1 \/ ~CanAlloc(s) THEN Throw(s, "bad_alloc")
    ELSE LET e == FreshNode(s)
             s1 == [NewListNode(s) EXCEPT !.end[l] = e, !.size[l] = 0]
             s2 == SetPrev(SetNext(s1, e, e), e, e)
         IN CopyLoop(s2, l, GetNext(s2, s2.end[other]), s2.end[other],
                     failAt - 1, kind)

\* move construction whose catch block forgets other.size_ = 0
ListMove_CatchKeepsSize(s, l, other, fail) ==
    LET s0 == [s EXCEPT !.end[l] = s.end[other], !.size[l] = s.size[other]]
    IN IF fail \/ ~CanAlloc(s0)
       THEN [s0 EXCEPT !.end[other] = Null, !.nomem = TRUE]
       ELSE LET e == FreshNode(s0)
                s1 == [NewListNode(s0) EXCEPT !.end[other] = e]
                s2 == SetPrev(SetNext(s1, e, e), e, e)
            IN [s2 EXCEPT !.size[other] = 0]

\* List(List&& other) noexcept
ListMove(s, l, other, fail) ==
    LET s0 == [s EXCEPT !.end[l] = s.end[other], !.size[l] = s.size[other]]
    IN IF fail \/ ~CanAlloc(s0)
       THEN [s0 EXCEPT !.end[other] = Null, !.size[other] = 0, !.nomem = TRUE]
       ELSE LET e == FreshNode(s0)
                s1 == [NewListNode(s0) EXCEPT !.end[other] = e]
                s2 == SetPrev(SetNext(s1, e, e), e, e)
            IN [s2 EXCEPT !.size[other] = 0]

\* ~List().  With end_ == nullptr and size_ != 0 the loop calls PopFront,
\* which reads through the null end_: undefined behaviour.
Dtor(s, l) ==
    IF s.end[l] = Null /\ ~IsEmpty(s, l)
    THEN [s EXCEPT !.fault = @ \cup {"null_deref"}]
    ELSE LET s1 == ClearFront(s, l)
             s2 == Delete(s1, s1.end[l])
         IN [s2 EXCEPT !.end[l] = Null]

\* copy-assignment without the comparison of this with &other
CopyAssign_NoSelfCheck(s, l, other, failAt, kind) ==
    LET s1 == ClearBack(s, l)
    IN CopyLoop(s1, l, Begin(s1, other), End(s1, other), failAt, kind)

\* copy-assignment that does not clear the list first
CopyAssign_NoClear(s, l, other, failAt, kind) ==
    IF l # other
    THEN CopyLoop(s, l, Begin(s, other), End(s, other), failAt, kind)
    ELSE s

\* operator=(const List& other)
CopyAssign(s, l, other, failAt, kind) ==
    IF l # other
    THEN LET s1 == ClearBack(s, l)
         IN CopyLoop(s1, l, Begin(s1, other), End(s1, other), failAt, kind)
    ELSE s

\* move-assignment that forgets other.size_ = 0 after a successful replacement
MoveAssign_KeepsSize(s, l, other, fail) ==
    IF l # other
    THEN LET s1 == ClearBack(s, l)
             s2 == Delete(s1, s1.end[l])
             s3 == [s2 EXCEPT !.end[l] = s2.end[other],
                              !.size[l] = s2.size[other]]
         IN IF fail \/ ~CanAlloc(s3)
            THEN [s3 EXCEPT !.end[other] = Null, !.nomem = TRUE]
            ELSE LET e == FreshNode(s3)
                     s4 == [NewListNode(s3) EXCEPT !.end[other] = e]
                 IN SetPrev(SetNext(s4, e, e), e, e)
    ELSE s

\* move-assignment that copies the elements and then empties other
MoveAssign_ByCopy(s, l, other, fail) ==
    IF l # other
    THEN ClearBack(CopyAssign(s, l, other, 0, "bad_alloc"), other)
    ELSE s

\* operator=(List&& other) noexcept
MoveAssign(s, l, other, fail) ==
    IF l # other
    THEN LET s1 == ClearBack(s, l)
             s2 == Delete(s1, s1.end[l])
             s3 == [s2 EXCEPT !.end[l] = s2.end[other],
                              !.size[l] = s2.size[other]]
         IN IF fail \/ ~CanAlloc(s3)
            THEN [s3 EXCEPT !.end[other] = Null, !.nomem = TRUE]
            ELSE LET e == FreshNode(s3)
                     s4 == [NewListNode(s3) EXCEPT !.end[other] = e]
                     s5 == SetPrev(SetNext(s4, e, e), e, e)
                 IN [s5 EXCEPT !.size[other] = 0]
    ELSE s

\* ----- traversal ------------------------------------------------------------
\* for (it = Begin(); it != End(); ++it) collect *it, cut off after fuel steps
RECURSIVE Walk(_, _, _, _)
Walk(s, it, stop, fuel) ==
    IF it = stop \/ it = Null \/ fuel = 0 THEN <<>>
    ELSE <<it>> \o Walk(s, GetNext(s, it), stop, fuel - 1)

\* the typed nodes of list l, in traversal order
NodesOf(s, l) ==
    IF s.end[l] = Null THEN <<>>
    ELSE Walk(s, Begin(s, l), End(s, l), MaxNodes + 1)

\* the elements of list l, in traversal order
Elements(s, l) ==
    LET ns == NodesOf(s, l) IN [i \in 1..Len(ns) |-> GetValue(s, ns[i])]

\* the ring of list l: its sentinel and its typed nodes
Ring(s, l) ==
    IF s.end[l] = Null THEN {}
    ELSE LET ns == NodesOf(s, l)
         IN {s.end[l]} \cup {ns[i] : i \in 1..Len(ns)}

\* ----- the program ----------------------------------------------------------
\* A list object outside its lifetime has no members: (nullptr, 0) stands for
\* its storage.
Abandon(s, l) == [s EXCEPT !.end[l] = Null, !.size[l] = 0]

\* a list object the caller may use: alive and not degraded by a failed move
Usable(l) == alive[l] /\ end_[l] # Null

Init ==
    /\ prev_ = [n \in Nodes |-> Null]
    /\ next_ = [n \in Nodes |-> Null]
    /\ value_ = [n \in Nodes |-> NoVal]
    /\ allocated = {}
    /\ end_ = [l \in Lists |-> Null]
    /\ size_ = [l \in Lists |-> 0]
    /\ alive = [l \in Lists |-> FALSE]
    /\ iter = Null
    /\ pc = "running"
    /\ last = [op |-> "init", exc |-> "none", nomem |-> FALSE, fault |-> {},
               at |-> Null, self |-> FALSE]
    /\ ref = [l \in Lists |-> <<>>]
    /\ copiedFrom = [l \in Lists |-> "-"]

\* The call op ran and left s.  An iterator whose node the call deallocated
\* is invalidated: the caller drops it.
CommitCall(s, op, at, self, outcome) ==
    /\ prev_' = s.prev
    /\ next_' = s.next
    /\ value_' = s.value
    /\ allocated' = s.alloc
    /\ end_' = s.end
    /\ size_' = s.size
    /\ iter' = IF iter \in s.freed THEN Null ELSE iter
    /\ pc' = IF s.exc = "terminate" THEN "terminated" ELSE outcome
    /\ last' = [op |-> op, exc |-> s.exc, nomem |-> s.nomem, fault |-> s.fault,
                at |-> at, self |-> self]

\* a call without an Iterator argument and without a List argument
Commit(s, op, outcome) == CommitCall(s, op, Null, FALSE, outcome)

FailKinds == {"none", "bad_alloc", "ctor"}

Construct(l) ==
    /\ pc = "running" /\ ~alive[l]
    /\ \E fail \in BOOLEAN :
         LET s == ListDefault(Cur, l, fail)
         IN /\ Commit(s, "List", "running")
            /\ alive' = [alive EXCEPT ![l] = (s.exc = "none")]
    /\ ref' = [ref EXCEPT ![l] = <<>>]
    /\ copiedFrom' = [copiedFrom EXCEPT ![l] = "-"]

\* A constructor that exits by an exception leaves no object: ~List() does
\* not run for it.
CopyConstruct(l, other) ==
    /\ pc = "running" /\ ~alive[l] /\ Usable(other)
    /\ \E failAt \in 0..(size_[other] + 1), kind \in {"bad_alloc", "ctor"} :
         LET s == ListCopy(Cur, l, other, failAt, kind)
             ok == s.exc = "none"
         IN /\ Commit(IF ok THEN s ELSE Abandon(s, l), "ListCopy", "running")
            /\ alive' = [alive EXCEPT ![l] = ok]
            /\ ref' = [ref EXCEPT ![l] = IF ok THEN Elements(s, l) ELSE <<>>]
            /\ copiedFrom' = [copiedFrom EXCEPT ![l] = IF ok THEN other ELSE "-"]

MoveConstruct(l, other) ==
    /\ pc = "running" /\ ~alive[l] /\ Usable(other)
    /\ \E fail \in BOOLEAN :
         LET s == ListMove(Cur, l, other, fail)
         IN /\ Commit(s, "ListMove", "running")
            /\ ref' = [ref EXCEPT ![l] = Elements(s, l),
                                  ![other] = Elements(s, other)]
    /\ alive' = [alive EXCEPT ![l] = TRUE]
    /\ copiedFrom' = [m \in Lists |->
                        IF m = l \/ copiedFrom[m] = other \/ m = other
                        THEN "-" ELSE copiedFrom[m]]

\* Reading through a null end_ is undefined: the process crashes, or runs on.
Destroy(l) ==
    /\ pc = "running" /\ alive[l]
    /\ LET s == Dtor(Cur, l)
       IN \E outcome \in IF s.fault = {} THEN {"running"}
                         ELSE {"running", "crashed"} :
            Commit(Abandon(s, l), "~List", outcome)
    /\ alive' = [alive EXCEPT ![l] = FALSE]
    /\ ref' = [ref EXCEPT ![l] = <<>>]
    /\ copiedFrom' = [m \in Lists |->
                        IF m = l \/ copiedFrom[m] = l THEN "-" ELSE copiedFrom[m]]

DoCopyAssign(l, other) ==
    /\ pc = "running" /\ Usable(l) /\ Usable(other)
    /\ \E failAt \in 0..size_[other], kind \in {"bad_alloc", "ctor"} :
         LET s == CopyAssign(Cur, l, other, failAt, kind)
         IN /\ CommitCall(s, "CopyAssign", Null, l = other, "running")
            /\ ref' = [ref EXCEPT ![l] = Elements(s, l)]
    /\ copiedFrom' = [m \in Lists |->
                        IF l # other /\ (m = l \/ copiedFrom[m] = l)
                        THEN "-" ELSE copiedFrom[m]]
    /\ UNCHANGED alive

DoMoveAssign(l, other) ==
    /\ pc = "running" /\ Usable(l) /\ Usable(other)
    /\ \E fail \in BOOLEAN :
         LET s == MoveAssign(Cur, l, other, fail)
         IN /\ CommitCall(s, "MoveAssign", Null, l = other, "running")
            /\ ref' = [ref EXCEPT ![l] = Elements(s, l),
                                  ![other] = Elements(s, other)]
    /\ copiedFrom' = [m \in Lists |->
                        IF l # other /\ (m \in {l, other} \/ copiedFrom[m] \in {l, other})
                        THEN "-" ELSE copiedFrom[m]]
    /\ UNCHANGED alive

DoPushBack(l) ==
    /\ pc = "running" /\ Usable(l)
    /\ \E element \in Values, fail \in FailKinds :
         LET s == PushBack(Cur, l, element, fail)
         IN /\ Commit(s, "PushBack", "running")
            /\ ref' = [ref EXCEPT ![l] = IF s.exc = "none"
                                         THEN Append(@, element) ELSE @]
    /\ UNCHANGED <<alive, copiedFrom>>

DoPushBackMove(l) ==
    /\ pc = "running" /\ Usable(l)
    /\ \E element \in Values, fail \in FailKinds :
         LET s == PushBackMove(Cur, l, element, fail)
         IN /\ Commit(s, "PushBackMove", "running")
            /\ ref' = [ref EXCEPT ![l] = IF s.exc = "none"
                                         THEN Append(@, element) ELSE @]
    /\ UNCHANGED <<alive, copiedFrom>>

DoPushFront(l) ==
    /\ pc = "running" /\ Usable(l)
    /\ \E element \in Values, fail \in FailKinds :
         LET s == PushFront(Cur, l, element, fail)
         IN /\ Commit(s, "PushFront", "running")
            /\ ref' = [ref EXCEPT ![l] = IF s.exc = "none"
                                         THEN <<element>> \o @ ELSE @]
    /\ UNCHANGED <<alive, copiedFrom>>

DoPushFrontMove(l) ==
    /\ pc = "running" /\ Usable(l)
    /\ \E element \in Values, fail \in FailKinds :
         LET s == PushFrontMove(Cur, l, element, fail)
         IN /\ Commit(s, "PushFrontMove", "running")
            /\ ref' = [ref EXCEPT ![l] = IF s.exc = "none"
                                         THEN <<element>> \o @ ELSE @]
    /\ UNCHANGED <<alive, copiedFrom>>

\* precondition of PopBack and PopFront: the list is not empty
DoPopBack(l) ==
    /\ pc = "running" /\ Usable(l) /\ ~IsEmpty(Cur, l)
    /\ Commit(PopBack(Cur, l), "PopBack", "running")
    /\ ref' = [ref EXCEPT ![l] = SubSeq(@, 1, Len(@) - 1)]
    /\ UNCHANGED <<alive, copiedFrom>>

DoPopFront(l) ==
    /\ pc = "running" /\ Usable(l) /\ ~IsEmpty(Cur, l)
    /\ Commit(PopFront(Cur, l), "PopFront", "running")
    /\ ref' = [ref EXCEPT ![l] = Tail(@)]
    /\ UNCHANGED <<alive, copiedFrom>>

\* precondition of Erase: place is End() or refers to an element of the list
EraseAt(l, place) ==
    /\ pc = "running" /\ Usable(l) /\ place \in Ring(Cur, l)
    /\ LET s == Erase(Cur, l, place)
       IN /\ CommitCall(s, "Erase", place, FALSE, "running")
          /\ ref' = [ref EXCEPT ![l] = Elements(s, l)]
    /\ UNCHANGED <<alive, copiedFrom>>

DoErase(l) == \E place \in Nodes : EraseAt(l, place)

\* l.Erase(Iterator()): the iter_ of a default-constructed iterator is nullptr
EraseUnbound(l) ==
    /\ pc = "running" /\ Usable(l) /\ size_[l] > -MaxUnder
    /\ LET s == Erase(Cur, l, Null)
       IN /\ CommitCall(s, "Erase", Null, FALSE, "running")
          /\ ref' = [ref EXCEPT ![l] = Elements(s, l)]
    /\ UNCHANGED <<alive, copiedFrom>>

\* it = l.Begin()
IterBegin(l) ==
    /\ pc = "running" /\ Usable(l)
    /\ iter' = Begin(Cur, l)
    /\ last' = [op |-> "Begin", exc |-> "none", nomem |-> FALSE, fault |-> {},
                at |-> Null, self |-> FALSE]
    /\ UNCHANGED <<prev_, next_, value_, allocated, end_, size_, alive, pc,
                   ref, copiedFrom>>

\* it = l.End()
IterEnd(l) ==
    /\ pc = "running" /\ Usable(l)
    /\ iter' = End(Cur, l)
    /\ last' = [op |-> "End", exc |-> "none", nomem |-> FALSE, fault |-> {},
                at |-> Null, self |-> FALSE]
    /\ UNCHANGED <<prev_, next_, value_, allocated, end_, size_, alive, pc,
                   ref, copiedFrom>>

\* Iterator::operator++ (pre- and post-increment move the iterator alike)
IterInc ==
    /\ pc = "running"
    /\ iter' = IF iter = Null THEN iter ELSE GetNext(Cur, iter)
    /\ last' = [op |-> "++",
                exc |-> IF iter = Null THEN "out_of_range" ELSE "none",
                nomem |-> FALSE, fault |-> {}, at |-> Null, self |-> FALSE]
    /\ UNCHANGED <<prev_, next_, value_, allocated, end_, size_, alive, pc,
                   ref, copiedFrom>>

\* the node is a plain ListNode, not a TNode: it has no value_ member
IsPlain(s, n) == GetValue(s, n) = NoVal

\* a pre-decrement that also refuses the sentinel
IterDec_RefusesEnd ==
    /\ pc = "running"
    /\ LET refused == iter = Null \/ IsPlain(Cur, iter)
       IN /\ iter' = IF refused THEN iter ELSE GetPrev(Cur, iter)
          /\ last' = [op |-> "--",
                      exc |-> IF refused THEN "out_of_range" ELSE "none",
                      nomem |-> FALSE, fault |-> {}, at |-> Null, self |-> FALSE]
    /\ UNCHANGED <<prev_, next_, value_, allocated, end_, size_, alive, pc,
                   ref, copiedFrom>>

\* Iterator::operator--(): the pre-decrement refuses a null iter_ and a node
\* whose prev_ is null
IterDec ==
    /\ pc = "running"
    /\ LET refused == iter = Null \/ GetPrev(Cur, iter) = Null
       IN /\ iter' = IF refused THEN iter ELSE GetPrev(Cur, iter)
          /\ last' = [op |-> "--",
                      exc |-> IF refused THEN "out_of_range" ELSE "none",
                      nomem |-> FALSE, fault |-> {}, at |-> Null, self |-> FALSE]
    /\ UNCHANGED <<prev_, next_, value_, allocated, end_, size_, alive, pc,
                   ref, copiedFrom>>

\* Iterator::operator--(int): the post-decrement refuses a null iter_ only
IterDecPost ==
    /\ pc = "running"
    /\ iter' = IF iter = Null THEN iter ELSE GetPrev(Cur, iter)
    /\ last' = [op |-> "--(int)",
                exc |-> IF iter = Null THEN "out_of_range" ELSE "none",
                nomem |-> FALSE, fault |-> {}, at |-> Null, self |-> FALSE]
    /\ UNCHANGED <<prev_, next_, value_, allocated, end_, size_, alive, pc,
                   ref, copiedFrom>>

\* Iterator::operator* and operator->: both refuse a null iter_ only.  On a
\* plain ListNode the static_cast to TNode<T>* and the read of value_ are
\* undefined: the call returns whatever lies behind the node, or the process
\* crashes; no exception is thrown.
Deref ==
    /\ pc = "running"
    /\ \E form \in {"*", "->"}, outcome \in {"running", "crashed"} :
         LET undefined == iter # Null /\ IsPlain(Cur, iter)
         IN /\ outcome = "crashed" => undefined
            /\ pc' = outcome
            /\ last' = [op |-> form,
                        exc |-> IF iter = Null THEN "runtime_error" ELSE "none",
                        nomem |-> FALSE,
                        fault |-> IF undefined THEN {"bad_cast"} ELSE {},
                        at |-> Null, self |-> FALSE]
    /\ UNCHANGED <<prev_, next_, value_, allocated, end_, size_, alive, iter,
                   ref, copiedFrom>>

\* The list objects' lifecycle and mutators, without an iterator object.
Next ==
    \/ \E l \in Lists : Construct(l)
    \/ \E l, other \in Lists : CopyConstruct(l, other)
    \/ \E l, other \in Lists : MoveConstruct(l, other)
    \/ \E l \in Lists : Destroy(l)
    \/ \E l, other \in Lists : DoCopyAssign(l, other)
    \/ \E l, other \in Lists : DoMoveAssign(l, other)
    \/ \E l \in Lists : DoPushBack(l)
    \/ \E l \in Lists : DoPushBackMove(l)
    \/ \E l \in Lists : DoPushFront(l)
    \/ \E l \in Lists : DoPushFrontMove(l)
    \/ \E l \in Lists : DoPopBack(l)
    \/ \E l \in Lists : DoPopFront(l)
    \/ \E l \in Lists : DoErase(l)

Spec == Init /\ [][Next]_vars

\* One list and one iterator object of the caller.
NextIter ==
    \/ Construct("a")
    \/ Destroy("a")
    \/ DoPushBack("a")
    \/ DoPushFront("a")
    \/ DoPopBack("a")
    \/ DoPopFront("a")
    \/ DoErase("a")
    \/ IterBegin("a")
    \/ IterEnd("a")
    \/ IterInc
    \/ IterDec
    \/ IterDecPost
    \/ Deref

SpecIter == Init /\ [][NextIter]_vars

\* One list whose caller also erases with unbound iterators.
NextUnbound ==
    \/ Construct("a")
    \/ DoPushBack("a")
    \/ DoPushFront("a")
    \/ DoErase("a")
    \/ EraseUnbound("a")

SpecUnbound == Init /\ [][NextUnbound]_vars

\* Two lists that are moved into each other, and one iterator object.
NextMove ==
    \/ \E l \in Lists : Construct(l)
    \/ \E l \in Lists : Destroy(l)
    \/ \E l \in Lists : DoPushBack(l)
    \/ \E l, other \in Lists : MoveConstruct(l, other)
    \/ \E l, other \in Lists : DoMoveAssign(l, other)
    \/ \E l \in Lists : IterBegin(l)
    \/ \E l \in Lists : IterEnd(l)
    \/ IterInc

SpecMove == Init /\ [][NextMove]_vars

\* ----- properties -----------------------------------------------------------
PushOps == {"PushBack", "PushBackMove", "PushFront", "PushFrontMove"}

MutatorOps == PushOps \cup {"PopBack", "PopFront", "Erase"}

\* the ring of l is a consistent bidirectional ring of the sentinel and
\* exactly size_ typed nodes
RingOK(l) ==
    LET e == end_[l]
        ns == NodesOf(Cur, l)
    IN /\ e \in allocated /\ value_[e] = NoVal
       /\ Len(ns) = size_[l]
       /\ \A i \in 1..Len(ns) :
            /\ ns[i] \in allocated /\ ns[i] # e /\ value_[ns[i]] \in Values
            /\ \A j \in 1..Len(ns) : ns[i] = ns[j] => i = j
       /\ next_[IF ns = <<>> THEN e ELSE ns[Len(ns)]] = e
       /\ \A n \in Ring(Cur, l) :
            /\ next_[n] # Null /\ prev_[n] # Null
            /\ prev_[next_[n]] = n /\ next_[prev_[n]] = n
       /\ (size_[l] = 0 => next_[e] = e /\ prev_[e] = e)

\* C1: every list with a non-null sentinel has a consistent bidirectional ring
\* that holds the sentinel and exactly size_ typed nodes; an empty list's
\* sentinel links to itself in both directions.
C1_RingInvariant == \A l \in Lists : Usable(l) => RingOK(l)

C1_Witness ==
    /\ last.op = "Erase"
    /\ \E l \in Lists : Usable(l) /\ size_[l] = 2

\* C2: Size() is the number of pushes minus the number of pops, and the
\* traversal from Begin() to End() yields the elements of the reference
\* sequence (PushBack appends, PushFront prepends, PopBack drops the last,
\* PopFront drops the first).
C2_MatchesReference ==
    \A l \in Lists :
        Usable(l) => /\ Size(Cur, l) = Len(ref[l])
                     /\ Len(NodesOf(Cur, l)) = Size(Cur, l)
                     /\ Elements(Cur, l) = ref[l]

C2_Witness ==
    /\ last.op = "PushFront" /\ last.exc = "none"
    /\ \E l \in Lists : Usable(l) /\ ref[l] = <<2, 1, 1>>

\* C3: a push whose allocation or element construction fails propagates the
\* exception to the caller and leaves the list and the heap as they were.
C3_PushStrongSafety ==
    [][(last'.op \in PushOps /\ last'.exc # "none")
         => /\ last'.exc \in {"bad_alloc", "ctor"}
            /\ pc' = "running"
            /\ UNCHANGED <<prev_, next_, value_, allocated, end_, size_>>]_vars

\* the sentinel of l is a self-linked node
SelfLinked(l) ==
    /\ end_[l] \in allocated
    /\ next_[end_[l]] = end_[l] /\ prev_[end_[l]] = end_[l]

\* C4: a move (construction, or assignment from a different list) whose
\* replacement sentinel is allocated leaves the source empty with a
\* self-linked sentinel and the destination with the source's elements.
C4_MoveTransfers ==
    [][\A l, other \in Lists :
         (/\ l # other /\ ~last'.nomem
          /\ \/ last'.op = "ListMove" /\ MoveConstruct(l, other)
             \/ last'.op = "MoveAssign" /\ DoMoveAssign(l, other))
         => /\ size_'[other] = 0
            /\ SelfLinked(other)'
            /\ Elements(Cur, l)' = Elements(Cur, other)
            /\ size_'[l] = size_[other]]_vars

C4_Witness ==
    /\ last.op = "MoveAssign" /\ ~last.nomem
    /\ \E l, other \in Lists :
         /\ l # other /\ Usable(l) /\ Usable(other)
         /\ size_[other] = 0 /\ size_[l] = 2

\* C5: a move-assignment whose replacement sentinel cannot be allocated leaves
\* the source with a null sentinel and size 0, the destination valid with the
\* source's elements, and destroying the source then touches no node.
C5_MoveAssignDegrades ==
    [][/\ \A l, other \in Lists :
            (/\ l # other /\ last'.op = "MoveAssign" /\ last'.nomem
             /\ DoMoveAssign(l, other))
            => /\ end_'[other] = Null /\ size_'[other] = 0
               /\ RingOK(l)'
               /\ Elements(Cur, l)' = Elements(Cur, other)
       /\ \A l \in Lists :
            (last'.op = "~List" /\ end_[l] = Null /\ Destroy(l))
            => /\ last'.fault = {} /\ pc' = "running"
               /\ UNCHANGED <<prev_, next_, value_, allocated>>]_vars

\* C6: a move construction whose replacement sentinel cannot be allocated
\* leaves the source with a null sentinel and size 0 and the new list with the
\* source's sentinel and elements; destroying such a source reads through no
\* null sentinel and unlinks nothing.
C6_MoveConstructDegrades ==
    [][/\ \A l, other \in Lists :
            (last'.op = "ListMove" /\ last'.nomem /\ MoveConstruct(l, other))
            => /\ end_'[other] = Null /\ size_'[other] = 0
               /\ end_'[l] = end_[other] /\ size_'[l] = size_[other]
               /\ NodesOf(Cur, l)' = NodesOf(Cur, other)
               /\ Elements(Cur, l)' = Elements(Cur, other)
               /\ RingOK(l)'
       /\ \A l \in Lists :
            (/\ last'.op = "~List" /\ end_[l] = Null /\ size_[l] = 0
             /\ Destroy(l))
            => /\ last'.fault = {} /\ pc' = "running"
               /\ UNCHANGED <<prev_, next_, value_, allocated>>]_vars

C6_Witness ==
    /\ last.op = "ListMove" /\ last.nomem
    /\ \E l, other \in Lists :
         /\ alive[other] /\ end_[other] = Null /\ size_[other] = 0
         /\ Usable(l) /\ size_[l] = 2

\* C7: when copy construction fails partway, every node allocated for the new
\* list is deallocated by the time the exception reaches the caller.
C7_CopyConstructNoLeak ==
    [][(last'.op = "ListCopy" /\ last'.exc # "none")
         => allocated' = allocated]_vars

\* the live lists whose ring holds node n
Owners(n) == {l \in Lists : alive[l] /\ n \in Ring(Cur, l)}

\* C8: every allocated node is in the ring of exactly one live list, no node
\* is deallocated twice, destroying a list with a sentinel deallocates its
\* whole ring, and once no list is alive no node is allocated.
C8_ExclusiveOwnership ==
    [][/\ \A n \in allocated' : Cardinality(Owners(n)') = 1
       /\ "double_free" \notin last'.fault
       /\ \A l \in Lists :
            (last'.op = "~List" /\ end_[l] # Null /\ Destroy(l))
            => Ring(Cur, l) \cap allocated' = {}
       /\ ((\A l \in Lists : ~alive'[l]) => allocated' = {})]_vars

\* the step is a mutator call on list l
Mutates(l) ==
    \/ last'.op = "PushBack" /\ DoPushBack(l)
    \/ last'.op = "PushBackMove" /\ DoPushBackMove(l)
    \/ last'.op = "PushFront" /\ DoPushFront(l)
    \/ last'.op = "PushFrontMove" /\ DoPushFrontMove(l)
    \/ last'.op = "PopBack" /\ DoPopBack(l)
    \/ last'.op = "PopFront" /\ DoPopFront(l)
    \/ last'.op = "Erase" /\ DoErase(l)

Removes(l, x) ==
    \/ last'.op = "PopBack" /\ x = GetPrev(Cur, end_[l]) /\ DoPopBack(l)
    \/ last'.op = "PopFront" /\ x = GetNext(Cur, end_[l]) /\ DoPopFront(l)
    \/ last'.op = "Erase" /\ EraseAt(l, x)

\* C10: an iterator to a live element refers to the same node, still in the
\* list and with the same value, after a push, pop or erase on the list that
\* does not remove that element.
C10_IteratorStable ==
    [][\A l \in Lists :
         (/\ Usable(l) /\ iter # Null /\ iter \in Ring(Cur, l) /\ iter # end_[l]
          /\ last'.op \in MutatorOps /\ ~Removes(l, iter))
         => /\ iter' = iter
            /\ iter \in allocated' /\ iter \in Ring(Cur, l)'
            /\ GetValue(Cur, iter)' = GetValue(Cur, iter)]_vars

C10_Witness ==
    /\ last.op \in {"PopFront", "PopBack", "Erase"}
    /\ iter # Null /\ Usable("a") /\ iter \in Ring(Cur, "a") /\ iter # end_["a"]
    /\ size_["a"] = 2

\* the iterator is positioned at the sentinel of l
AtEnd(l) == Usable(l) /\ iter # Null /\ iter = End(Cur, l)

\* C11: incrementing an iterator that is at End() raises the out-of-range
\* exception and leaves the iterator where it is.
C11_IncrementAtEndRaises ==
    [][(last'.op = "++" /\ AtEnd("a") /\ IterInc)
         => /\ last'.exc = "out_of_range"
            /\ iter' = iter]_vars

\* C12: dereferencing (operator* or operator->) an iterator that is at the
\* sentinel raises the dereference exception instead of yielding an element.
C12_DerefAtEndRaises ==
    [][(last'.op \in {"*", "->"} /\ AtEnd("a") /\ Deref)
         => /\ last'.exc = "runtime_error"
            /\ last'.fault = {}]_vars

\* C13: Erase(End()) is a no-op on every list: size_, the elements, every
\* link and the set of allocated nodes are unchanged.
C13_EraseEndNoOp ==
    [][\A l \in Lists :
         (last'.op = "Erase" /\ EraseAt(l, End(Cur, l)))
         => /\ UNCHANGED <<prev_, next_, value_, allocated, end_, size_>>
            /\ Elements(Cur, l)' = Elements(Cur, l)
            /\ last'.exc = "none" /\ last'.fault = {}]_vars

C13_Witness ==
    /\ last.op = "Erase"
    /\ \E l \in Lists : Usable(l) /\ last.at = End(Cur, l) /\ size_[l] = 2

\* the sequence q without its k-th member
Without(q, k) == SubSeq(q, 1, k - 1) \o SubSeq(q, k + 1, Len(q))

\* the position of node x in the sequence of nodes ns
IndexOf(ns, x) == CHOOSE k \in 1..Len(ns) : ns[k] = x

\* C14: Erase(it) with it at the k-th element removes exactly that node:
\* Size() decreases by one, the traversal is the previous one without its
\* k-th element, the other elements stay on their nodes in their order, and
\* the erased node is deallocated.
C14_EraseRemovesOne ==
    [][\A l \in Lists, x \in Nodes :
         (last'.op = "Erase" /\ x # End(Cur, l) /\ EraseAt(l, x))
         => LET ns == NodesOf(Cur, l)
                k == IndexOf(ns, x)
            IN /\ Size(Cur, l)' = Size(Cur, l) - 1
               /\ NodesOf(Cur, l)' = Without(ns, k)
               /\ Elements(Cur, l)' = Without(Elements(Cur, l), k)
               /\ allocated' = allocated \ {x}
               /\ end_' = end_
               /\ \A n \in allocated' : value_'[n] = value_[n]]_vars

C14_Witness ==
    /\ last.op = "Erase" /\ last.at # Null /\ last.at \notin allocated
    /\ \E l \in Lists : Usable(l) /\ Elements(Cur, l) = <<1, 2>>

\* C15: when an allocation fails during the copy-assignment l = other of two
\* distinct lists, l has the size and the elements it had before the call.
C15_CopyAssignFailureKeeps ==
    [][\A l, other \in Lists :
         (/\ l # other /\ last'.op = "CopyAssign" /\ last'.exc = "bad_alloc"
          /\ DoCopyAssign(l, other))
         => /\ Size(Cur, l)' = Size(Cur, l)
            /\ Elements(Cur, l)' = Elements(Cur, l)]_vars

\* the set of the members of sequence q
Range(q) == {q[i] : i \in 1..Len(q)}

C17_SelfAssignNoOp ==
    [][\A l \in Lists :
         (/\ last'.op \in {"CopyAssign", "MoveAssign"} /\ last'.self
          /\ (DoCopyAssign(l, l) \/ DoMoveAssign(l, l)))
         => /\ UNCHANGED <<prev_, next_, value_, allocated, end_, size_>>
            /\ Elements(Cur, l)' = Elements(Cur, l)
            /\ last'.exc = "none" /\ ~last'.nomem /\ last'.fault = {}
            /\ \A failAt \in 0..Size(Cur, l), kind \in {"bad_alloc", "ctor"} :
                 CopyAssign(Cur, l, l, failAt, kind).freed = {}
            /\ \A fail \in BOOLEAN : MoveAssign(Cur, l, l, fail).freed = {}]_vars

C17_Witness ==
    /\ last.op \in {"CopyAssign", "MoveAssign"} /\ last.self
    /\ \E l \in Lists : Usable(l) /\ Size(Cur, l) = 2

\* C18: decrementing (pre or post) an iterator that is at End() raises
\* nothing: on a non-empty list the iterator moves to the last element, the
\* one Back() reads, and on an empty list it stays at the sentinel.
C18_DecrementAtEnd ==
    [][(/\ last'.op \in {"--", "--(int)"} /\ AtEnd("a")
        /\ (IterDec \/ IterDecPost))
         => /\ last'.exc = "none"
            /\ IF IsEmpty(Cur, "a")
               THEN iter' = End(Cur, "a")
               ELSE LET ns == NodesOf(Cur, "a")
                    IN /\ iter' = ns[Len(ns)]
                       /\ ~IsPlain(Cur, iter')
                       /\ GetValue(Cur, iter') = Back(Cur, "a")
                       /\ GetValue(Cur, iter') = ref["a"][Len(ref["a"])]]_vars

C18_Witness ==
    /\ last.op = "--" /\ last.exc = "none"
    /\ Usable("a") /\ Size(Cur, "a") = 2
    /\ iter = GetPrev(Cur, End(Cur, "a"))

\* C19: Erase with a default-constructed iterator removes no node and leaves
\* Size() as it was, equal to the number of typed nodes in the ring.
C19_EraseUnboundNoOp ==
    [][(/\ last'.op = "Erase" /\ last'.at = Null
        /\ Size(Cur, "a") = Len(NodesOf(Cur, "a")) /\ EraseUnbound("a"))
         => /\ allocated' = allocated
            /\ NodesOf(Cur, "a")' = NodesOf(Cur, "a")
            /\ Size(Cur, "a")' = Size(Cur, "a")
            /\ Size(Cur, "a")' = Len(NodesOf(Cur, "a")')]_vars

\* the typed nodes on the heap
Typed == {n \in allocated : ~IsPlain(Cur, n)}

\* C20: a move (construction, or assignment from a different list) hands the
\* source's nodes over by identity and allocates no typed node: an iterator to
\* an element of the source refers to the same node afterwards, now in the
\* destination's ring with the same value, and the source's former End() is
\* the destination's End(), not the source's new one.
C20_MoveKeepsNodes ==
    [][\A l, other \in Lists :
         (/\ l # other /\ last'.op \in {"ListMove", "MoveAssign"}
          /\ (MoveConstruct(l, other) \/ DoMoveAssign(l, other)))
         => /\ NodesOf(Cur, l)' = NodesOf(Cur, other)
            /\ Elements(Cur, l)' = Elements(Cur, other)
            /\ End(Cur, l)' = End(Cur, other)
            /\ Typed' = Range(NodesOf(Cur, other))
            /\ (iter # Null /\ iter \in Range(NodesOf(Cur, other)))
                 => /\ iter' = iter
                    /\ iter \in allocated' /\ iter \in Ring(Cur, l)'
                    /\ iter \notin Ring(Cur, other)'
                    /\ GetValue(Cur, iter)' = GetValue(Cur, iter)
            /\ (iter # Null /\ iter = End(Cur, other))
                 => /\ iter' = End(Cur, l)'
                    /\ iter' # End(Cur, other)']_vars

C20_Witness ==
    /\ last.op = "MoveAssign" /\ ~last.self /\ ~last.nomem /\ iter # Null
    /\ \E l, other \in Lists :
         /\ l # other /\ Usable(l) /\ Usable(other)
         /\ Size(Cur, l) = 2 /\ Size(Cur, other) = 0
         /\ iter = NodesOf(Cur, l)[2]

====
